---- MODULE Spec2Model ----
(***************************************************************************)
(* Auction system (Sistema_Leilao-2.0): participant registry, auction      *)
(* lifecycle sweep and bid engine, modelled from src/src/services/*.py,    *)
(* src/src/models/models.py and src/src/utils/validators.py.               *)
(*                                                                         *)
(* Amounts are floats in the code; here they are multiples of half a cent  *)
(* (0.005 == 1, so 0.01 == Incremento == 2).  Times are clock readings of  *)
(* datetime.now(); two calls may read the same value.  A name is modelled  *)
(* by the length of its stripped text, a CPF / e-mail by a token (0 is a   *)
(* malformed one), a birth date by the age it yields.                      *)
(***************************************************************************)
EXTENDS Integers, Sequences, FiniteSets, TLC

\* ---------------------------------------------------------------- bounds
MaxParticipantes == 2
MaxLeiloes == 1
MaxLances == 3
MaxValor == 3
MaxPiso == 2
MaxTempo == 2
MaxSessoes == 2
MaxChamadas == 1
MaxLancesEmpate == 4

\* ------------------------------------------------------------- constants
Nulo == -1
TamMinNomeLeilao == 3
TamMinNomeParticipante == 2
IdadeMinima == 18
Incremento == 2

VARIABLES
    participantes,  \* table participantes: id -> row
    leiloes,        \* table leiloes: id -> row
    lances,         \* table lances: the rows in insertion order
    agora,          \* what datetime.now() returns
    notificacoes,   \* leilao id -> times the sweep handed it to the notifier
    ret,            \* result of the last completed call
    sessoes         \* concurrent callers of criar_lance: their open sessions

vars == <<participantes, leiloes, lances, agora, notificacoes, ret, sessoes>>

\* ------------------------------------------------------------ input sets
IdsParticipante == 1..MaxParticipantes
IdsLeilao == 1..MaxLeiloes
Valores == 0..MaxValor
Pisos == 0..MaxPiso
Tempos == 0..MaxTempo
NomesLeilao == {TamMinNomeLeilao - 1, TamMinNomeLeilao}
NomesParticipante == {TamMinNomeParticipante - 1, TamMinNomeParticipante}
Cpfs == 0..MaxParticipantes
Emails == 0..MaxParticipantes
Idades == {IdadeMinima - 1, IdadeMinima}
Opc(S) == S \cup {Nulo}

\* number of arguments of a call that are not None
Fornecidos(args) == Cardinality({i \in DOMAIN args : args[i] # Nulo})

\* arguments of criar_participante, <<cpf, nome, email, idade>>: a person k
\* registers with CPF token k and e-mail token k
EntradasCriarParticipante ==
    {a \in Cpfs \X NomesParticipante \X Emails \X Idades : a[1] = a[3]}

\* arguments of atualizar_participante: the name, the birth date, or the CPF
\* together with the e-mail
EntradasAtualizarParticipante ==
    {a \in Opc(Cpfs) \X Opc(NomesParticipante) \X Opc(Emails) \X Opc(Idades) :
        \/ Fornecidos(a) <= 1 /\ a[1] = Nulo /\ a[3] = Nulo
        \/ Fornecidos(a) = 2 /\ a[1] # Nulo /\ a[3] = a[1]}

\* arguments of criar_leilao: <<nome, lance_minimo, data_inicio, data_termino>>
EntradasCriarLeilao == NomesLeilao \X Pisos \X Tempos \X Tempos

\* arguments of atualizar_leilao: one field, both dates, or a floor with a date
EntradasAtualizarLeilao ==
    {a \in Opc(NomesLeilao) \X Opc(Pisos) \X Opc(Tempos) \X Opc(Tempos) :
        \/ Fornecidos(a) <= 1
        \/ Fornecidos(a) = 2 /\ a[1] = Nulo /\ (a[2] = Nulo \/ a[4] = Nulo)}

Sessoes == 1..MaxSessoes
\* a caller between two calls; chamadas counts the calls it has finished
Livre == [fase |-> "livre", p |-> 0, l |-> 0, valor |-> 0, ult_id |-> 0, chamadas |-> 0]

Zeros == <<0, 0, 0, 0>>
\* what the last call returned: motivo is "ok", or the check that raised
\* ValidationError; cont is the sweep's <<abertos, finalizados, expirados,
\* emails_enviados>>; seguidas counts sweeps with no other call or clock
\* advance in between (1 or 2)
Ret(op, motivo) == [op |-> op, motivo |-> motivo, cont |-> Zeros, seguidas |-> 0]

\* ---------------------------------------------------------------- helpers
MaxDe(S) == CHOOSE x \in S : \A y \in S : y <= x

\* INTEGER PRIMARY KEY of SQLite: the next rowid is the largest one plus 1
NovoId(S) == IF S = {} THEN 1 ELSE MaxDe(S) + 1

IndicesDoLeilao(lc, l) == {i \in 1..Len(lc) : lc[i].leilao_id = l}

\* query(Lance).filter(leilao_id == l).order_by(data_lance.desc()).first():
\* the rows the query may return first; rows with equal data_lance are in
\* no defined order
UltimosLances(lc, l) ==
    {i \in IndicesDoLeilao(lc, l) :
        \A j \in IndicesDoLeilao(lc, l) : lc[j].data_lance <= lc[i].data_lance}

\* mutant: the winner query ordered by valor ascending
LancesVencedores_Menor(lc, l) ==
    {i \in IndicesDoLeilao(lc, l) :
        \A j \in IndicesDoLeilao(lc, l) : lc[i].valor <= lc[j].valor}

\* query(Lance).filter(leilao_id == l).order_by(valor.desc()).first()
LancesVencedores(lc, l) ==
    {i \in IndicesDoLeilao(lc, l) :
        \A j \in IndicesDoLeilao(lc, l) : lc[j].valor <= lc[i].valor}

\* mutant: the guard written as count() > 1
ParticipanteTemLances_MaisDeUm(lc, p) ==
    Cardinality({i \in 1..Len(lc) : lc[i].participante_id = p}) > 1

\* query(Lance).filter(participante_id == p).count() > 0
ParticipanteTemLances(lc, p) == \E i \in 1..Len(lc) : lc[i].participante_id = p

\* ------------------------------------------------------------- validators
validar_valor(valor) == valor > 0
validar_lance_minimo(lance_minimo) == lance_minimo > 0
validar_nome_leilao(nome) == nome >= TamMinNomeLeilao
validar_nome_participante(nome) == nome >= TamMinNomeParticipante
validar_cpf(cpf) == cpf # 0
validar_email(email) == email # 0
validar_data_nascimento(idade) == idade >= IdadeMinima
\* mutant: an end equal to the start passes
validar_datas_NaoEstrito(data_inicio, data_termino, permitir_passado, t) ==
    /\ data_termino >= data_inicio
    /\ (permitir_passado \/ data_inicio >= t)

validar_datas(data_inicio, data_termino, permitir_passado, t) ==
    /\ data_termino > data_inicio
    /\ (permitir_passado \/ data_inicio >= t)

\* ------------------------------------------------------------------ Init
Init ==
    /\ participantes = <<>>
    /\ leiloes = <<>>
    /\ lances = <<>>
    /\ agora = 0
    /\ notificacoes = [l \in IdsLeilao |-> 0]
    /\ ret = Ret("init", "ok")
    /\ sessoes = [w \in Sessoes |-> Livre]

\* datetime.now() read by a later call: the wall clock has moved on
Tick ==
    /\ agora < MaxTempo
    /\ agora' = agora + 1
    /\ ret' = Ret("tick", "ok")
    /\ UNCHANGED <<participantes, leiloes, lances, notificacoes>>

\* except: session.rollback(); raise
Falha(op, motivo) ==
    /\ ret' = Ret(op, motivo)
    /\ UNCHANGED <<participantes, leiloes, lances, agora, notificacoes>>


\* ------------------------------------------------- ParticipanteService
\* mutant: the e-mail is not looked up before the insert
criar_participante_SemEmailDuplicado(cpf, nome, email, idade) ==
    IF ~validar_cpf(cpf) THEN Falha("criar_participante", "cpf")
    ELSE IF ~validar_nome_participante(nome) THEN Falha("criar_participante", "nome")
    ELSE IF ~validar_email(email) THEN Falha("criar_participante", "email")
    ELSE IF ~validar_data_nascimento(idade)
        THEN Falha("criar_participante", "data_nascimento")
    ELSE IF \E q \in DOMAIN participantes : participantes[q].cpf = cpf
        THEN Falha("criar_participante", "cpf_duplicado")
    ELSE
        /\ participantes' =
              [q \in DOMAIN participantes \cup {NovoId(DOMAIN participantes)} |->
                  IF q \in DOMAIN participantes THEN participantes[q]
                  ELSE [cpf |-> cpf, nome |-> nome, email |-> email,
                        data_nascimento |-> idade]]
        /\ ret' = Ret("criar_participante", "ok")
        /\ UNCHANGED <<leiloes, lances, agora, notificacoes>>

criar_participante(cpf, nome, email, idade) ==
    IF ~validar_cpf(cpf) THEN Falha("criar_participante", "cpf")
    ELSE IF ~validar_nome_participante(nome) THEN Falha("criar_participante", "nome")
    ELSE IF ~validar_email(email) THEN Falha("criar_participante", "email")
    ELSE IF ~validar_data_nascimento(idade)
        THEN Falha("criar_participante", "data_nascimento")
    ELSE IF \E q \in DOMAIN participantes : participantes[q].cpf = cpf
        THEN Falha("criar_participante", "cpf_duplicado")
    ELSE IF \E q \in DOMAIN participantes : participantes[q].email = email
        THEN Falha("criar_participante", "email_duplicado")
    ELSE
        /\ participantes' =
              [q \in DOMAIN participantes \cup {NovoId(DOMAIN participantes)} |->
                  IF q \in DOMAIN participantes THEN participantes[q]
                  ELSE [cpf |-> cpf, nome |-> nome, email |-> email,
                        data_nascimento |-> idade]]
        /\ ret' = Ret("criar_participante", "ok")
        /\ UNCHANGED <<leiloes, lances, agora, notificacoes>>

\* mutant: no rollback, the fields assigned before the failing check are
\* flushed and stay stored
atualizar_participante_SemRollback(p, cpf, nome, email, idade) ==
    LET Parcial(c, n, e) ==
            [participantes EXCEPT ![p] =
                [cpf |-> IF c # Nulo THEN c ELSE @.cpf,
                 nome |-> IF n # Nulo THEN n ELSE @.nome,
                 email |-> IF e # Nulo THEN e ELSE @.email,
                 data_nascimento |-> @.data_nascimento]]
        FalhaParcial(motivo, ps) ==
            /\ ret' = Ret("atualizar_participante", motivo)
            /\ participantes' = ps
            /\ UNCHANGED <<leiloes, lances, agora, notificacoes>>
    IN
    IF p \notin DOMAIN participantes
        THEN Falha("atualizar_participante", "participante")
    ELSE IF ParticipanteTemLances(lances, p)
        THEN Falha("atualizar_participante", "tem_lances")
    ELSE IF cpf # Nulo /\ ~validar_cpf(cpf)
        THEN Falha("atualizar_participante", "cpf")
    ELSE IF cpf # Nulo
            /\ \E q \in DOMAIN participantes \ {p} : participantes[q].cpf = cpf
        THEN Falha("atualizar_participante", "cpf_duplicado")
    ELSE IF nome # Nulo /\ ~validar_nome_participante(nome)
        THEN FalhaParcial("nome", Parcial(cpf, Nulo, Nulo))
    ELSE IF email # Nulo /\ ~validar_email(email)
        THEN FalhaParcial("email", Parcial(cpf, nome, Nulo))
    ELSE IF email # Nulo
            /\ \E q \in DOMAIN participantes \ {p} : participantes[q].email = email
        THEN FalhaParcial("email_duplicado", Parcial(cpf, nome, Nulo))
    ELSE IF idade # Nulo /\ ~validar_data_nascimento(idade)
        THEN FalhaParcial("data_nascimento", Parcial(cpf, nome, email))
    ELSE
        /\ participantes' = [participantes EXCEPT ![p] =
              [cpf |-> IF cpf # Nulo THEN cpf ELSE @.cpf,
               nome |-> IF nome # Nulo THEN nome ELSE @.nome,
               email |-> IF email # Nulo THEN email ELSE @.email,
               data_nascimento |-> IF idade # Nulo THEN idade ELSE @.data_nascimento]]
        /\ ret' = Ret("atualizar_participante", "ok")
        /\ UNCHANGED <<leiloes, lances, agora, notificacoes>>

atualizar_participante(p, cpf, nome, email, idade) ==
    IF p \notin DOMAIN participantes
        THEN Falha("atualizar_participante", "participante")
    ELSE IF ParticipanteTemLances(lances, p)
        THEN Falha("atualizar_participante", "tem_lances")
    ELSE IF cpf # Nulo /\ ~validar_cpf(cpf)
        THEN Falha("atualizar_participante", "cpf")
    ELSE IF cpf # Nulo
            /\ \E q \in DOMAIN participantes \ {p} : participantes[q].cpf = cpf
        THEN Falha("atualizar_participante", "cpf_duplicado")
    ELSE IF nome # Nulo /\ ~validar_nome_participante(nome)
        THEN Falha("atualizar_participante", "nome")
    ELSE IF email # Nulo /\ ~validar_email(email)
        THEN Falha("atualizar_participante", "email")
    ELSE IF email # Nulo
            /\ \E q \in DOMAIN participantes \ {p} : participantes[q].email = email
        THEN Falha("atualizar_participante", "email_duplicado")
    ELSE IF idade # Nulo /\ ~validar_data_nascimento(idade)
        THEN Falha("atualizar_participante", "data_nascimento")
    ELSE
        /\ participantes' = [participantes EXCEPT ![p] =
              [cpf |-> IF cpf # Nulo THEN cpf ELSE @.cpf,
               nome |-> IF nome # Nulo THEN nome ELSE @.nome,
               email |-> IF email # Nulo THEN email ELSE @.email,
               data_nascimento |-> IF idade # Nulo THEN idade ELSE @.data_nascimento]]
        /\ ret' = Ret("atualizar_participante", "ok")
        /\ UNCHANGED <<leiloes, lances, agora, notificacoes>>

excluir_participante(p) ==
    IF p \notin DOMAIN participantes
        THEN Falha("excluir_participante", "participante")
    ELSE IF ParticipanteTemLances(lances, p)
        THEN Falha("excluir_participante", "tem_lances")
    ELSE
        /\ participantes' = [q \in DOMAIN participantes \ {p} |-> participantes[q]]
        /\ ret' = Ret("excluir_participante", "ok")
        /\ UNCHANGED <<leiloes, lances, agora, notificacoes>>

\* ------------------------------------------------------- LeilaoService
\* mutant: an auction whose start has passed is created ABERTO
criar_leilao_AbreSeIniciado(nome, lance_minimo, data_inicio, data_termino, permitir_passado) ==
    IF ~validar_nome_leilao(nome) THEN Falha("criar_leilao", "nome")
    ELSE IF ~validar_lance_minimo(lance_minimo) THEN Falha("criar_leilao", "lance_minimo")
    ELSE IF ~validar_datas(data_inicio, data_termino, permitir_passado, agora)
        THEN Falha("criar_leilao", "datas")
    ELSE
        /\ leiloes' =
              [l \in DOMAIN leiloes \cup {NovoId(DOMAIN leiloes)} |->
                  IF l \in DOMAIN leiloes THEN leiloes[l]
                  ELSE [nome |-> nome, lance_minimo |-> lance_minimo,
                        data_inicio |-> data_inicio, data_termino |-> data_termino,
                        status |-> IF data_inicio <= agora THEN "ABERTO" ELSE "INATIVO",
                        participante_vencedor_id |-> Nulo]]
        /\ ret' = Ret("criar_leilao", "ok")
        /\ UNCHANGED <<participantes, lances, agora, notificacoes>>

criar_leilao(nome, lance_minimo, data_inicio, data_termino, permitir_passado) ==
    IF ~validar_nome_leilao(nome) THEN Falha("criar_leilao", "nome")
    ELSE IF ~validar_lance_minimo(lance_minimo) THEN Falha("criar_leilao", "lance_minimo")
    ELSE IF ~validar_datas(data_inicio, data_termino, permitir_passado, agora)
        THEN Falha("criar_leilao", "datas")
    ELSE
        /\ leiloes' =
              [l \in DOMAIN leiloes \cup {NovoId(DOMAIN leiloes)} |->
                  IF l \in DOMAIN leiloes THEN leiloes[l]
                  ELSE [nome |-> nome, lance_minimo |-> lance_minimo,
                        data_inicio |-> data_inicio, data_termino |-> data_termino,
                        status |-> "INATIVO", participante_vencedor_id |-> Nulo]]
        /\ ret' = Ret("criar_leilao", "ok")
        /\ UNCHANGED <<participantes, lances, agora, notificacoes>>

\* the statuses atualizar_leilao and excluir_leilao refuse
StatusProtegidos == {"ABERTO", "FINALIZADO"}

\* mutant: a successful update puts the auction back to INATIVO
atualizar_leilao_Reinicia(l, nome, lance_minimo, data_inicio, data_termino) ==
    IF l \notin DOMAIN leiloes THEN Falha("atualizar_leilao", "leilao")
    ELSE IF leiloes[l].status \in StatusProtegidos
        THEN Falha("atualizar_leilao", "status")
    ELSE IF nome # Nulo /\ ~validar_nome_leilao(nome)
        THEN Falha("atualizar_leilao", "nome")
    ELSE IF lance_minimo # Nulo /\ ~validar_lance_minimo(lance_minimo)
        THEN Falha("atualizar_leilao", "lance_minimo")
    ELSE
        LET nova_data_inicio ==
                IF data_inicio # Nulo THEN data_inicio ELSE leiloes[l].data_inicio
            nova_data_termino ==
                IF data_termino # Nulo THEN data_termino ELSE leiloes[l].data_termino
        IN  IF (data_inicio # Nulo \/ data_termino # Nulo)
               /\ ~validar_datas(nova_data_inicio, nova_data_termino, FALSE, agora)
                THEN Falha("atualizar_leilao", "datas")
            ELSE
                /\ leiloes' = [leiloes EXCEPT ![l] =
                      [@ EXCEPT !.nome = IF nome # Nulo THEN nome ELSE @,
                                !.lance_minimo =
                                    IF lance_minimo # Nulo THEN lance_minimo ELSE @,
                                !.data_inicio = nova_data_inicio,
                                !.data_termino = nova_data_termino,
                                !.status = "INATIVO"]]
                /\ ret' = Ret("atualizar_leilao", "ok")
                /\ UNCHANGED <<participantes, lances, agora, notificacoes>>

atualizar_leilao(l, nome, lance_minimo, data_inicio, data_termino) ==
    IF l \notin DOMAIN leiloes THEN Falha("atualizar_leilao", "leilao")
    ELSE IF leiloes[l].status \in StatusProtegidos
        THEN Falha("atualizar_leilao", "status")
    ELSE IF nome # Nulo /\ ~validar_nome_leilao(nome)
        THEN Falha("atualizar_leilao", "nome")
    ELSE IF lance_minimo # Nulo /\ ~validar_lance_minimo(lance_minimo)
        THEN Falha("atualizar_leilao", "lance_minimo")
    ELSE
        LET nova_data_inicio ==
                IF data_inicio # Nulo THEN data_inicio ELSE leiloes[l].data_inicio
            nova_data_termino ==
                IF data_termino # Nulo THEN data_termino ELSE leiloes[l].data_termino
        IN  IF (data_inicio # Nulo \/ data_termino # Nulo)
               /\ ~validar_datas(nova_data_inicio, nova_data_termino, FALSE, agora)
                THEN Falha("atualizar_leilao", "datas")
            ELSE
                /\ leiloes' = [leiloes EXCEPT ![l] =
                      [@ EXCEPT !.nome = IF nome # Nulo THEN nome ELSE @,
                                !.lance_minimo =
                                    IF lance_minimo # Nulo THEN lance_minimo ELSE @,
                                !.data_inicio = nova_data_inicio,
                                !.data_termino = nova_data_termino]]
                /\ ret' = Ret("atualizar_leilao", "ok")
                /\ UNCHANGED <<participantes, lances, agora, notificacoes>>

\* mutant: the status of the auction is not tested before the delete
excluir_leilao_SemGuarda(l) ==
    IF l \notin DOMAIN leiloes THEN Falha("excluir_leilao", "leilao")
    ELSE
        /\ leiloes' = [k \in DOMAIN leiloes \ {l} |-> leiloes[k]]
        /\ lances' = SelectSeq(lances, LAMBDA b : b.leilao_id # l)
        /\ ret' = Ret("excluir_leilao", "ok")
        /\ UNCHANGED <<participantes, agora, notificacoes>>

excluir_leilao(l) ==
    IF l \notin DOMAIN leiloes THEN Falha("excluir_leilao", "leilao")
    ELSE IF leiloes[l].status \in StatusProtegidos
        THEN Falha("excluir_leilao", "status")
    ELSE
        /\ leiloes' = [k \in DOMAIN leiloes \ {l} |-> leiloes[k]]
        \* relationship(cascade="all, delete-orphan")
        /\ lances' = SelectSeq(lances, LAMBDA b : b.leilao_id # l)
        /\ ret' = Ret("excluir_leilao", "ok")
        /\ UNCHANGED <<participantes, agora, notificacoes>>


\* -------------------------------------------------------- LanceService
\* the row criar_lance reads as ultimo_lance: an index of lances, 0 for None
CandidatosUltimo(lc, l) ==
    IF IndicesDoLeilao(lc, l) = {} THEN {0} ELSE UltimosLances(lc, l)

\* the checks of criar_lance in their order, grouped by the query whose
\* result they test; "ok" when the group passes
MotivoParticipante(ps, p, valor) ==
    IF ~validar_valor(valor) THEN "valor"
    ELSE IF p \notin DOMAIN ps THEN "participante"
    ELSE "ok"

\* mutant: rule b (the auction must be ABERTO) left out
MotivoLeilao_SemStatus(ls, l, valor) ==
    IF l \notin DOMAIN ls THEN "leilao"
    ELSE IF valor < ls[l].lance_minimo THEN "lance_minimo"
    ELSE "ok"

\* mutant: rule g is not tested
MotivoLeilao_SemPiso(ls, l, valor) ==
    IF l \notin DOMAIN ls THEN "leilao"
    ELSE IF ls[l].status # "ABERTO" THEN "status"
    ELSE "ok"

\* mutant: an amount equal to the floor is refused
MotivoLeilao_PisoEstrito(ls, l, valor) ==
    IF l \notin DOMAIN ls THEN "leilao"
    ELSE IF ls[l].status # "ABERTO" THEN "status"
    ELSE IF valor <= ls[l].lance_minimo THEN "lance_minimo"
    ELSE "ok"

MotivoLeilao(ls, l, valor) ==
    IF l \notin DOMAIN ls THEN "leilao"
    ELSE IF ls[l].status # "ABERTO" THEN "status"
    ELSE IF valor < ls[l].lance_minimo THEN "lance_minimo"
    ELSE "ok"

\* mutant: rule f tested before rule e, as simular_lance does
MotivoUltimo_ConsecutivoAntes(lc, ult, p, valor) ==
    IF ult # 0 /\ lc[ult].participante_id = p THEN "consecutivo"
    ELSE IF ult # 0 /\ valor <= lc[ult].valor THEN "menor_que_ultimo"
    ELSE "ok"

MotivoUltimo(lc, ult, p, valor) ==
    IF ult # 0 /\ valor <= lc[ult].valor THEN "menor_que_ultimo"
    ELSE IF ult # 0 /\ lc[ult].participante_id = p THEN "consecutivo"
    ELSE "ok"

MotivoLance(ps, ls, lc, ult, p, l, valor) ==
    IF MotivoParticipante(ps, p, valor) # "ok" THEN MotivoParticipante(ps, p, valor)
    ELSE IF MotivoLeilao(ls, l, valor) # "ok" THEN MotivoLeilao(ls, l, valor)
    ELSE MotivoUltimo(lc, ult, p, valor)

NovoLance(lc, p, l, valor, t) ==
    [id |-> NovoId({lc[i].id : i \in 1..Len(lc)}), valor |-> valor,
     leilao_id |-> l, participante_id |-> p, data_lance |-> t]

\* mutant: the row added to the session stays stored when commit() raises
criar_lance_SemRollback(p, l, valor) ==
    \E ult \in CandidatosUltimo(lances, l), commit_ok \in BOOLEAN :
        LET motivo == MotivoLance(participantes, leiloes, lances, ult, p, l, valor)
        IN  IF motivo # "ok" THEN commit_ok /\ Falha("criar_lance", motivo)
            ELSE
                /\ lances' = Append(lances, NovoLance(lances, p, l, valor, agora))
                /\ ret' = Ret("criar_lance", IF commit_ok THEN "ok" ELSE "commit")
                /\ UNCHANGED <<participantes, leiloes, agora, notificacoes>>

\* commit_ok is FALSE when session.commit() raises (a store fault)
criar_lance(p, l, valor) ==
    \E ult \in CandidatosUltimo(lances, l), commit_ok \in BOOLEAN :
        LET motivo == MotivoLance(participantes, leiloes, lances, ult, p, l, valor)
        IN  IF motivo # "ok" THEN commit_ok /\ Falha("criar_lance", motivo)
            ELSE IF ~commit_ok THEN Falha("criar_lance", "commit")
            ELSE
                /\ lances' = Append(lances, NovoLance(lances, p, l, valor, agora))
                /\ ret' = Ret("criar_lance", "ok")
                /\ UNCHANGED <<participantes, leiloes, agora, notificacoes>>

\* the checks of simular_lance in their order; "ok" is valido = True
MotivoSimulacao(ps, ls, lc, ult, p, l, valor) ==
    IF ~validar_valor(valor) THEN "valor"
    ELSE IF p \notin DOMAIN ps THEN "participante"
    ELSE IF l \notin DOMAIN ls THEN "leilao"
    ELSE IF ls[l].status # "ABERTO" THEN "status"
    ELSE IF ult # 0 /\ lc[ult].participante_id = p THEN "consecutivo"
    ELSE IF valor < (IF ult # 0 THEN lc[ult].valor + Incremento
                     ELSE ls[l].lance_minimo)
        THEN "valor_minimo"
    ELSE "ok"

\* mutant: the simulation stores the bid it found valid
simular_lance_Grava(p, l, valor) ==
    \E ult \in CandidatosUltimo(lances, l) :
        LET motivo == MotivoSimulacao(participantes, leiloes, lances, ult, p, l, valor)
        IN  /\ ret' = Ret("simular_lance", motivo)
            /\ lances' = IF motivo = "ok" /\ Len(lances) < MaxLances
                          THEN Append(lances, NovoLance(lances, p, l, valor, agora))
                          ELSE lances
            /\ UNCHANGED <<participantes, leiloes, agora, notificacoes>>

\* simular_lance: queries only; the session is closed with nothing added
simular_lance(p, l, valor) ==
    \E ult \in CandidatosUltimo(lances, l) :
        /\ ret' = Ret("simular_lance",
                      MotivoSimulacao(participantes, leiloes, lances, ult, p, l, valor))
        /\ UNCHANGED <<participantes, leiloes, lances, agora, notificacoes>>

\* the float obter_valor_minimo_proximo_lance returns when ult is the row
\* its query reads as ultimo_lance
ValorMinimoProximoLance(ls, lc, ult, l) ==
    IF ult # 0 THEN lc[ult].valor + Incremento ELSE ls[l].lance_minimo

obter_valor_minimo_proximo_lance(l) ==
    IF l \notin DOMAIN leiloes
        THEN Falha("obter_valor_minimo_proximo_lance", "leilao")
    ELSE
        \E ult \in CandidatosUltimo(lances, l) :
            /\ ret' = [op |-> "obter_valor_minimo_proximo_lance", motivo |-> "ok",
                       cont |-> Zeros, seguidas |-> 0, l |-> l,
                       valor |-> ValorMinimoProximoLance(leiloes, lances, ult, l)]
            /\ UNCHANGED <<participantes, leiloes, lances, agora, notificacoes>>

\* join(Lance, Participante.id == Lance.participante_id)
\*   .filter(Lance.leilao_id == l).group_by(Participante.id, Participante.nome)
ParticipantesDoLeilao(ps, lc, l) ==
    {lc[i].participante_id : i \in IndicesDoLeilao(lc, l)} \cap DOMAIN ps

LancesDoParticipante(lc, l, p) ==
    {i \in IndicesDoLeilao(lc, l) : lc[i].participante_id = p}

\* func.max(Lance.valor)
MaiorLance(lc, l, p) == MaxDe({lc[i].valor : i \in LancesDoParticipante(lc, l, p)})

\* func.count(Lance.id)
TotalLances(lc, l, p) == Cardinality(LancesDoParticipante(lc, l, p))

Permutacoes(S) ==
    {o \in [1..Cardinality(S) -> S] : \A i, j \in DOMAIN o : o[i] = o[j] => i = j}

\* mutant: order_by(max(valor)) ascending
Ordenacoes_Crescente(ps, lc, l) ==
    {o \in Permutacoes(ParticipantesDoLeilao(ps, lc, l)) :
        \A i, j \in DOMAIN o :
            i < j => MaiorLance(lc, l, o[i]) <= MaiorLance(lc, l, o[j])}

\* order_by(func.max(Lance.valor).desc()): the orders in which the groups may
\* come back; groups with equal maxima are in no defined order
Ordenacoes(ps, lc, l) ==
    {o \in Permutacoes(ParticipantesDoLeilao(ps, lc, l)) :
        \A i, j \in DOMAIN o :
            i < j => MaiorLance(lc, l, o[i]) >= MaiorLance(lc, l, o[j])}

\* for posicao, (participante_id, nome, maior_lance, total_lances)
\*     in enumerate(ranking_query, 1)
Ranking(ps, lc, l, o) ==
    [k \in DOMAIN o |->
        [posicao |-> k, participante_id |-> o[k],
         participante_nome |-> ps[o[k]].nome,
         maior_lance |-> MaiorLance(lc, l, o[k]),
         total_lances |-> TotalLances(lc, l, o[k]),
         vencedor |-> (k = 1)]]

obter_ranking_participantes_leilao(l) ==
    IF l \notin DOMAIN leiloes
        THEN Falha("obter_ranking_participantes_leilao", "leilao")
    ELSE
        \E o \in Ordenacoes(participantes, lances, l) :
            /\ ret' = [op |-> "obter_ranking_participantes_leilao", motivo |-> "ok",
                       cont |-> Zeros, seguidas |-> 0, l |-> l,
                       ranking |-> Ranking(participantes, lances, l, o)]
            /\ UNCHANGED <<participantes, leiloes, lances, agora, notificacoes>>

\* ------------------------------------------------ lifecycle sweep
\* mutant: an INATIVO auction is tested for its start before its end
NovoStatus_AbreAntes(le, tem_lances, t) ==
    IF le.status = "INATIVO" THEN
        IF le.data_inicio <= t THEN "ABERTO"
        ELSE IF le.data_termino <= t
            THEN (IF tem_lances THEN "FINALIZADO" ELSE "EXPIRADO")
        ELSE "INATIVO"
    ELSE IF le.status = "ABERTO" THEN
        IF le.data_termino <= t
            THEN (IF tem_lances THEN "FINALIZADO" ELSE "EXPIRADO")
        ELSE "ABERTO"
    ELSE le.status

\* mutant: the end of an auction tested with < instead of <=
NovoStatus_TerminoEstrito(le, tem_lances, t) ==
    IF le.status = "INATIVO" THEN
        IF le.data_termino < t
            THEN (IF tem_lances THEN "FINALIZADO" ELSE "EXPIRADO")
        ELSE IF le.data_inicio <= t THEN "ABERTO"
        ELSE "INATIVO"
    ELSE IF le.status = "ABERTO" THEN
        IF le.data_termino < t
            THEN (IF tem_lances THEN "FINALIZADO" ELSE "EXPIRADO")
        ELSE "ABERTO"
    ELSE le.status

\* mutant: the start of an auction tested with < instead of <=
NovoStatus_InicioEstrito(le, tem_lances, t) ==
    IF le.status = "INATIVO" THEN
        IF le.data_termino <= t
            THEN (IF tem_lances THEN "FINALIZADO" ELSE "EXPIRADO")
        ELSE IF le.data_inicio < t THEN "ABERTO"
        ELSE "INATIVO"
    ELSE IF le.status = "ABERTO" THEN
        IF le.data_termino <= t
            THEN (IF tem_lances THEN "FINALIZADO" ELSE "EXPIRADO")
        ELSE "ABERTO"
    ELSE le.status

\* the status one auction has after the loop body of atualizar_status_leiloes
NovoStatus(le, tem_lances, t) ==
    IF le.status = "INATIVO" THEN
        IF le.data_termino <= t
            THEN (IF tem_lances THEN "FINALIZADO" ELSE "EXPIRADO")
        ELSE IF le.data_inicio <= t THEN "ABERTO"
        ELSE "INATIVO"
    ELSE IF le.status = "ABERTO" THEN
        IF le.data_termino <= t
            THEN (IF tem_lances THEN "FINALIZADO" ELSE "EXPIRADO")
        ELSE "ABERTO"
    ELSE le.status

\* leiloes_para_processar: status IN (INATIVO, ABERTO)
StatusProcessados == {"INATIVO", "ABERTO"}

\* mutant: the query without its status filter, the loop taking every other
\* status through the INATIVO branch
LeiloesAposSweep_SemFiltro(ls, lc, t, esc) ==
    [l \in DOMAIN ls |->
        [ls[l] EXCEPT
            !.status =
                IF ls[l].status = "EXPIRADO"
                THEN NovoStatus([ls[l] EXCEPT !.status = "INATIVO"],
                                \E i \in 1..Len(lc) : lc[i].leilao_id = l, t)
                ELSE NovoStatus(ls[l], \E i \in 1..Len(lc) : lc[i].leilao_id = l, t),
            !.participante_vencedor_id =
                IF l \in DOMAIN esc THEN lc[esc[l]].participante_id ELSE @]]

ParaProcessar(ls) == {l \in DOMAIN ls : ls[l].status \in StatusProcessados}

Destino(ls, lc, t, l) == NovoStatus(ls[l], IndicesDoLeilao(lc, l) # {}, t)

Transicoes(ls, lc, t, de, para) ==
    {l \in ParaProcessar(ls) : ls[l].status \in de /\ Destino(ls, lc, t, l) = para}

\* auctions whose status the sweep sets to st in this pass
Mudam(ls, lc, t, st) == Transicoes(ls, lc, t, StatusProcessados \ {st}, st)

\* mutant: lance_vencedor taken without the order_by, any bid of the auction
EscolhasVencedor_SemOrdem(ls, lc, t) ==
    {f \in [Mudam(ls, lc, t, "FINALIZADO") -> 1..Len(lc)] :
        \A l \in DOMAIN f : f[l] \in IndicesDoLeilao(lc, l)}

\* every way the sweep may pick lance_vencedor for the auctions it finalizes
EscolhasVencedor(ls, lc, t) ==
    {f \in [Mudam(ls, lc, t, "FINALIZADO") -> 1..Len(lc)] :
        \A l \in DOMAIN f : f[l] \in LancesVencedores(lc, l)}

LeiloesAposSweep(ls, lc, t, esc) ==
    [l \in DOMAIN ls |->
        IF l \in ParaProcessar(ls)
        THEN [ls[l] EXCEPT
                !.status = Destino(ls, lc, t, l),
                !.participante_vencedor_id =
                    IF l \in DOMAIN esc THEN lc[esc[l]].participante_id ELSE @]
        ELSE ls[l]]

\* mutant: a failure of the notifier undoes the sweep's transitions
atualizar_status_leiloes_Reverte(enviar_emails) ==
    \E esc \in EscolhasVencedor(leiloes, lances, agora) :
    \E falha \in BOOLEAN :
    \E sucesso \in SUBSET (DOMAIN esc) :
        LET notifica == enviar_emails /\ DOMAIN esc # {}
            chamados == IF notifica /\ ~falha
                        THEN {l \in DOMAIN esc :
                                lances[esc[l]].participante_id \in DOMAIN participantes}
                        ELSE {}
        IN  /\ (~notifica => ~falha /\ sucesso = {})
            /\ (falha => sucesso = {})
            /\ sucesso \subseteq (IF notifica THEN chamados ELSE {})
            /\ leiloes' = IF notifica /\ sucesso # DOMAIN esc
                          THEN leiloes
                          ELSE LeiloesAposSweep(leiloes, lances, agora, esc)
            /\ notificacoes' =
                  [l \in IdsLeilao |->
                      IF notifica /\ l \in DOMAIN esc
                      THEN notificacoes[l] + 1 ELSE notificacoes[l]]
            /\ ret' = [op |-> "atualizar_status_leiloes", motivo |-> "ok",
                       cont |-> <<Cardinality(Mudam(leiloes, lances, agora, "ABERTO")),
                                  Cardinality(Mudam(leiloes, lances, agora, "FINALIZADO")),
                                  Cardinality(Mudam(leiloes, lances, agora, "EXPIRADO")),
                                  Cardinality(sucesso)>>,
                       seguidas |-> IF ret.op = "atualizar_status_leiloes"
                                    THEN 2 ELSE 1]
            /\ UNCHANGED <<participantes, lances, agora>>

\* mutant: every FINALIZADO auction with a winner is handed to the notifier
\* in every pass, not only the ones finalized in this pass
atualizar_status_leiloes_NotificaTodos(enviar_emails) ==
    \E esc \in EscolhasVencedor(leiloes, lances, agora) :
    \E sucesso \in SUBSET (DOMAIN esc) :
        /\ (~enviar_emails => sucesso = {})
        /\ leiloes' = LeiloesAposSweep(leiloes, lances, agora, esc)
        /\ notificacoes' =
              [l \in IdsLeilao |->
                  IF /\ enviar_emails
                     /\ l \in DOMAIN leiloes'
                     /\ leiloes'[l].status = "FINALIZADO"
                  THEN notificacoes[l] + 1 ELSE notificacoes[l]]
        /\ ret' = [op |-> "atualizar_status_leiloes", motivo |-> "ok",
                   cont |-> <<Cardinality(Mudam(leiloes, lances, agora, "ABERTO")),
                              Cardinality(Mudam(leiloes, lances, agora, "FINALIZADO")),
                              Cardinality(Mudam(leiloes, lances, agora, "EXPIRADO")),
                              Cardinality(sucesso)>>,
                   seguidas |-> IF ret.op = "atualizar_status_leiloes"
                                THEN 2 ELSE 1]
        /\ UNCHANGED <<participantes, lances, agora>>

\* The auctions finalized in this pass are handed to the winner notifier
\* (_enviar_emails_vencedores) after the commit, when enviar_emails is set.
\* The notifier calls enviar_email_vencedor for each of them whose winner row
\* exists; sucesso are the calls that returned True; falha is an exception
\* raised inside the notifier before its loop (it then returns 0).
atualizar_status_leiloes(enviar_emails) ==
    \E esc \in EscolhasVencedor(leiloes, lances, agora) :
    \E falha \in BOOLEAN :
    \E sucesso \in SUBSET (DOMAIN esc) :
        LET notifica == enviar_emails /\ DOMAIN esc # {}
            chamados == IF notifica /\ ~falha
                        THEN {l \in DOMAIN esc :
                                lances[esc[l]].participante_id \in DOMAIN participantes}
                        ELSE {}
        IN  /\ (~notifica => ~falha /\ sucesso = {})
            /\ (falha => sucesso = {})
            /\ sucesso \subseteq (IF notifica THEN chamados ELSE {})
            /\ leiloes' = LeiloesAposSweep(leiloes, lances, agora, esc)
            /\ notificacoes' =
                  [l \in IdsLeilao |->
                      IF notifica /\ l \in DOMAIN esc
                      THEN notificacoes[l] + 1 ELSE notificacoes[l]]
            /\ ret' = [op |-> "atualizar_status_leiloes", motivo |-> "ok",
                       cont |-> <<Cardinality(Mudam(leiloes, lances, agora, "ABERTO")),
                                  Cardinality(Mudam(leiloes, lances, agora, "FINALIZADO")),
                                  Cardinality(Mudam(leiloes, lances, agora, "EXPIRADO")),
                                  Cardinality(sucesso)>>,
                       seguidas |-> IF ret.op = "atualizar_status_leiloes"
                                    THEN 2 ELSE 1]
            /\ UNCHANGED <<participantes, lances, agora>>

\* ------------------------------------------------------ specification
\* calls run one at a time, each from its first line to its last
CriarParticipante ==
    /\ NovoId(DOMAIN participantes) <= MaxParticipantes
    /\ \E a \in EntradasCriarParticipante : criar_participante(a[1], a[2], a[3], a[4])
    /\ UNCHANGED sessoes

AtualizarParticipante ==
    /\ \E p \in IdsParticipante, a \in EntradasAtualizarParticipante :
          atualizar_participante(p, a[1], a[2], a[3], a[4])
    /\ UNCHANGED sessoes

ExcluirParticipante ==
    /\ \E p \in IdsParticipante : excluir_participante(p)
    /\ UNCHANGED sessoes

CriarLeilao ==
    /\ NovoId(DOMAIN leiloes) <= MaxLeiloes
    /\ \E a \in EntradasCriarLeilao, permitir_passado \in BOOLEAN :
          criar_leilao(a[1], a[2], a[3], a[4], permitir_passado)
    /\ UNCHANGED sessoes

AtualizarLeilao ==
    /\ \E l \in IdsLeilao, a \in EntradasAtualizarLeilao :
          atualizar_leilao(l, a[1], a[2], a[3], a[4])
    /\ UNCHANGED sessoes

ExcluirLeilao ==
    /\ \E l \in IdsLeilao : excluir_leilao(l)
    /\ UNCHANGED sessoes

AtualizarStatusLeiloes ==
    /\ \E enviar_emails \in BOOLEAN : atualizar_status_leiloes(enviar_emails)
    /\ UNCHANGED sessoes

CriarLance ==
    /\ \E p \in IdsParticipante, l \in IdsLeilao, valor \in Valores :
          criar_lance(p, l, valor)
    /\ Len(lances') <= MaxLances
    /\ UNCHANGED sessoes

SimularLance ==
    /\ \E p \in IdsParticipante, l \in IdsLeilao, valor \in Valores :
          simular_lance(p, l, valor)
    /\ UNCHANGED sessoes

Relogio == Tick /\ UNCHANGED sessoes

Next ==
    \/ Relogio
    \/ CriarParticipante
    \/ AtualizarParticipante
    \/ ExcluirParticipante
    \/ CriarLeilao
    \/ AtualizarLeilao
    \/ ExcluirLeilao
    \/ AtualizarStatusLeiloes
    \/ CriarLance
    \/ SimularLance

Spec == Init /\ [][Next]_vars

\* ------------------------------------------------ the participant registry
\* CPFs and e-mails as the caller types them: a CPF token written as 11
\* digits or with its punctuation, an e-mail token written with its domain
\* in lower or in upper case.  Here a CPF and an e-mail are chosen
\* independently of each other.
CpfsBrutos == Cpfs \X {"digitos", "pontuado"}
EmailsBrutos == Emails \X {"minusculo", "dominio_maiusculo"}

\* an argument left at None
Ausente == <<Nulo, "None">>
OpcBruto(S) == S \cup {Ausente}

\* re.sub(r'\D', '', cpf); None stays None
limpar_cpf(bruto) == bruto[1]

\* validate_email(email).normalized; None stays None
normalizar_email(bruto) == bruto[1]

CadastroCriar ==
    /\ NovoId(DOMAIN participantes) <= MaxParticipantes
    /\ \E cpf \in CpfsBrutos, nome \in NomesParticipante,
          email \in EmailsBrutos, idade \in Idades :
          criar_participante(limpar_cpf(cpf), nome, normalizar_email(email), idade)
    /\ UNCHANGED sessoes

CadastroAtualizar ==
    /\ \E p \in IdsParticipante, cpf \in OpcBruto(CpfsBrutos),
          nome \in Opc(NomesParticipante), email \in OpcBruto(EmailsBrutos),
          idade \in Opc(Idades) :
          atualizar_participante(p, limpar_cpf(cpf), nome, normalizar_email(email), idade)
    /\ UNCHANGED sessoes

NextCadastro ==
    \/ CadastroCriar
    \/ CadastroAtualizar
    \/ ExcluirParticipante

SpecCadastro == Init /\ [][NextCadastro]_vars

\* ------------------------------------------------ updates of several fields
\* The registry together with INATIVO auctions; atualizar_leilao and
\* atualizar_participante are called with any combination of arguments.
AtualizarLeilaoCompleto ==
    /\ \E l \in IdsLeilao, nome \in Opc(NomesLeilao), lance_minimo \in Opc(Pisos),
          data_inicio \in Opc(Tempos), data_termino \in Opc(Tempos) :
          atualizar_leilao(l, nome, lance_minimo, data_inicio, data_termino)
    /\ UNCHANGED sessoes

NextAtualizacoes ==
    \/ Relogio
    \/ CadastroCriar
    \/ CadastroAtualizar
    \/ CriarLeilao
    \/ AtualizarLeilaoCompleto

SpecAtualizacoes == Init /\ [][NextAtualizacoes]_vars

\* ------------------------------------------------- bids and their queries
\* Two registered participants and one ABERTO auction without bids, then
\* bids, the clock, sweeps and the read-only queries of LanceService.
InitLances ==
    /\ participantes = [p \in IdsParticipante |->
          [cpf |-> p, nome |-> TamMinNomeParticipante, email |-> p,
           data_nascimento |-> IdadeMinima]]
    /\ \E piso \in 1..MaxPiso :
          leiloes = [l \in {1} |->
              [nome |-> TamMinNomeLeilao, lance_minimo |-> piso, data_inicio |-> 0,
               data_termino |-> MaxTempo, status |-> "ABERTO",
               participante_vencedor_id |-> Nulo]]
    /\ lances = <<>>
    /\ agora = 0
    /\ notificacoes = [l \in IdsLeilao |-> 0]
    /\ ret = [op |-> "atualizar_status_leiloes", motivo |-> "ok",
              cont |-> <<1, 0, 0, 0>>, seguidas |-> 1]
    /\ sessoes = [w \in Sessoes |-> Livre]

ObterValorMinimoProximoLance ==
    /\ \E l \in IdsLeilao : obter_valor_minimo_proximo_lance(l)
    /\ UNCHANGED sessoes

ObterRankingParticipantesLeilao ==
    /\ \E l \in IdsLeilao : obter_ranking_participantes_leilao(l)
    /\ UNCHANGED sessoes

NextLances ==
    \/ Relogio
    \/ AtualizarStatusLeiloes
    \/ CriarLance
    \/ ObterValorMinimoProximoLance
    \/ ObterRankingParticipantesLeilao

SpecLances == InitLances /\ [][NextLances]_vars

\* ------------------------------------------------- the life of an auction
\* Two registered participants and no auction; auctions are created, changed,
\* deleted, bid on and swept.  The clock advances up to MaxTempo and
\* atualizar_status_leiloes is called again and again.
InitVida ==
    /\ participantes = [p \in IdsParticipante |->
          [cpf |-> p, nome |-> TamMinNomeParticipante, email |-> p,
           data_nascimento |-> IdadeMinima]]
    /\ leiloes = <<>>
    /\ lances = <<>>
    /\ agora = 0
    /\ notificacoes = [l \in IdsLeilao |-> 0]
    /\ ret = Ret("criar_participante", "ok")
    /\ sessoes = [w \in Sessoes |-> Livre]

NextVida ==
    \/ Relogio
    \/ CriarLeilao
    \/ AtualizarLeilao
    \/ ExcluirLeilao
    \/ CriarLance
    \/ AtualizarStatusLeiloes

SpecVida ==
    /\ InitVida
    /\ [][NextVida]_vars
    /\ WF_vars(Relogio)
    /\ WF_vars(AtualizarStatusLeiloes)

\* ---------------------------------------------- bids with equal timestamps
\* The bid engine alone, with room for one more bid: four bids are needed
\* before a query for the last bid that returns an older row of equal
\* data_lance lets the most recently inserted bid be lower than a stored one.
CriarLanceEmpate ==
    /\ \E p \in IdsParticipante, l \in IdsLeilao, valor \in Valores :
          criar_lance(p, l, valor)
    /\ Len(lances') <= MaxLancesEmpate
    /\ UNCHANGED sessoes

NextEmpate ==
    \/ Relogio
    \/ AtualizarStatusLeiloes
    \/ CriarLanceEmpate
    \/ ObterRankingParticipantesLeilao

SpecEmpate == InitLances /\ [][NextEmpate]_vars

\* ------------------------------------------- concurrent criar_lance calls
\* Each call has its own session (get_session).  The three SELECTs and the
\* INSERT + commit are separate statements: database.py sets no isolation
\* level and takes no lock, so another session's commit may fall between any
\* two of them.
Fecha(w) == [Livre EXCEPT !.chamadas = sessoes[w].chamadas + 1]

FalhaSessao(w, motivo) ==
    /\ sessoes' = [sessoes EXCEPT ![w] = Fecha(w)]
    /\ Falha("criar_lance", motivo)

Avanca(w, fase, ult_id) ==
    /\ sessoes' = [sessoes EXCEPT ![w].fase = fase, ![w].ult_id = ult_id]
    /\ UNCHANGED <<participantes, leiloes, lances, agora, notificacoes, ret>>

lance_ler_participante(w, p, l, valor) ==
    /\ sessoes[w].fase = "livre"
    /\ IF MotivoParticipante(participantes, p, valor) # "ok"
       THEN FalhaSessao(w, MotivoParticipante(participantes, p, valor))
       ELSE /\ sessoes' = [sessoes EXCEPT ![w] =
                  [fase |-> "leu_participante", p |-> p, l |-> l, valor |-> valor,
                   ult_id |-> 0, chamadas |-> @.chamadas]]
            /\ UNCHANGED <<participantes, leiloes, lances, agora, notificacoes, ret>>

lance_ler_leilao(w) ==
    /\ sessoes[w].fase = "leu_participante"
    /\ IF MotivoLeilao(leiloes, sessoes[w].l, sessoes[w].valor) # "ok"
       THEN FalhaSessao(w, MotivoLeilao(leiloes, sessoes[w].l, sessoes[w].valor))
       ELSE Avanca(w, "leu_leilao", 0)

lance_ler_ultimo(w) ==
    /\ sessoes[w].fase = "leu_leilao"
    /\ \E ult \in CandidatosUltimo(lances, sessoes[w].l) :
          IF MotivoUltimo(lances, ult, sessoes[w].p, sessoes[w].valor) # "ok"
          THEN FalhaSessao(w, MotivoUltimo(lances, ult, sessoes[w].p, sessoes[w].valor))
          ELSE Avanca(w, "leu_ultimo", IF ult = 0 THEN 0 ELSE lances[ult].id)

lance_gravar(w) ==
    /\ sessoes[w].fase = "leu_ultimo"
    /\ \/ /\ Len(lances) < MaxLances
          /\ lances' = Append(lances, NovoLance(lances, sessoes[w].p, sessoes[w].l,
                                                sessoes[w].valor, agora))
          /\ sessoes' = [sessoes EXCEPT ![w] = Fecha(w)]
          /\ ret' = Ret("criar_lance", "ok")
          /\ UNCHANGED <<participantes, leiloes, agora, notificacoes>>
       \/ FalhaSessao(w, "commit")

\* two registered participants and one auction the sweep has opened
InitConc ==
    /\ participantes = [p \in IdsParticipante |->
          [cpf |-> p, nome |-> TamMinNomeParticipante, email |-> p,
           data_nascimento |-> IdadeMinima]]
    /\ leiloes = [l \in {1} |->
          [nome |-> TamMinNomeLeilao, lance_minimo |-> 1, data_inicio |-> 0,
           data_termino |-> MaxTempo, status |-> "ABERTO",
           participante_vencedor_id |-> Nulo]]
    /\ lances = <<>>
    /\ agora = 0
    /\ notificacoes = [l \in IdsLeilao |-> 0]
    /\ ret = [op |-> "atualizar_status_leiloes", motivo |-> "ok",
              cont |-> <<1, 0, 0, 0>>, seguidas |-> 1]
    /\ sessoes = [w \in Sessoes |-> Livre]

SessaoLerParticipante ==
    \E w \in Sessoes, p \in IdsParticipante, l \in IdsLeilao, valor \in Valores :
        /\ sessoes[w].chamadas < MaxChamadas
        /\ lance_ler_participante(w, p, l, valor)

SessaoLerLeilao == \E w \in Sessoes : lance_ler_leilao(w)

SessaoLerUltimo == \E w \in Sessoes : lance_ler_ultimo(w)

SessaoGravar == \E w \in Sessoes : lance_gravar(w)

NextConc ==
    \/ Relogio
    \/ AtualizarStatusLeiloes
    \/ SessaoLerParticipante
    \/ SessaoLerLeilao
    \/ SessaoLerUltimo
    \/ SessaoGravar

SpecConc == InitConc /\ [][NextConc]_vars

\* ------------------- concurrent atualizar_participante / excluir_participante
\* The SELECT of the participant, the count of its bids and the UPDATE or
\* DELETE + commit are separate statements of the caller's own session; a
\* commit of another session may fall between any two of them.  SQLite does
\* not enforce the foreign keys of lances (no PRAGMA foreign_keys).
FalhaChamada(w, op, motivo) ==
    /\ sessoes' = [sessoes EXCEPT ![w] = Fecha(w)]
    /\ Falha(op, motivo)

Passa(w, fase) ==
    /\ sessoes' = [sessoes EXCEPT ![w].fase = fase]
    /\ UNCHANGED <<participantes, leiloes, lances, agora, notificacoes, ret>>

\* the checks of atualizar_participante that follow the bid count
MotivoAtualizacao(ps, p, cpf, nome, email, idade) ==
    IF cpf # Nulo /\ ~validar_cpf(cpf) THEN "cpf"
    ELSE IF cpf # Nulo /\ \E q \in DOMAIN ps \ {p} : ps[q].cpf = cpf
        THEN "cpf_duplicado"
    ELSE IF nome # Nulo /\ ~validar_nome_participante(nome) THEN "nome"
    ELSE IF email # Nulo /\ ~validar_email(email) THEN "email"
    ELSE IF email # Nulo /\ \E q \in DOMAIN ps \ {p} : ps[q].email = email
        THEN "email_duplicado"
    ELSE IF idade # Nulo /\ ~validar_data_nascimento(idade) THEN "data_nascimento"
    ELSE "ok"

atualizar_ler_participante(w, p, a) ==
    /\ sessoes[w].fase = "livre"
    /\ IF p \notin DOMAIN participantes
       THEN FalhaChamada(w, "atualizar_participante", "participante")
       ELSE /\ sessoes' = [sessoes EXCEPT ![w] =
                  [fase |-> "atualizar_leu", p |-> p, a |-> a,
                   chamadas |-> @.chamadas]]
            /\ UNCHANGED <<participantes, leiloes, lances, agora, notificacoes, ret>>

atualizar_contar_lances(w) ==
    /\ sessoes[w].fase = "atualizar_leu"
    /\ IF ParticipanteTemLances(lances, sessoes[w].p)
       THEN FalhaChamada(w, "atualizar_participante", "tem_lances")
       ELSE Passa(w, "atualizar_contou")

\* the validations, the duplicate queries and the UPDATE + commit; the UPDATE
\* of a row another session deleted matches no row (StaleDataError)
atualizar_gravar(w) ==
    /\ sessoes[w].fase = "atualizar_contou"
    /\ LET p == sessoes[w].p
           a == sessoes[w].a
           motivo == MotivoAtualizacao(participantes, p, a[1], a[2], a[3], a[4])
       IN  IF motivo # "ok" THEN FalhaChamada(w, "atualizar_participante", motivo)
           ELSE IF p \notin DOMAIN participantes
               THEN FalhaChamada(w, "atualizar_participante", "commit")
           ELSE
               /\ participantes' = [participantes EXCEPT ![p] =
                     [cpf |-> IF a[1] # Nulo THEN a[1] ELSE @.cpf,
                      nome |-> IF a[2] # Nulo THEN a[2] ELSE @.nome,
                      email |-> IF a[3] # Nulo THEN a[3] ELSE @.email,
                      data_nascimento |-> IF a[4] # Nulo THEN a[4]
                                          ELSE @.data_nascimento]]
               /\ sessoes' = [sessoes EXCEPT ![w] = Fecha(w)]
               /\ ret' = Ret("atualizar_participante", "ok")
               /\ UNCHANGED <<leiloes, lances, agora, notificacoes>>

excluir_ler_participante(w, p) ==
    /\ sessoes[w].fase = "livre"
    /\ IF p \notin DOMAIN participantes
       THEN FalhaChamada(w, "excluir_participante", "participante")
       ELSE /\ sessoes' = [sessoes EXCEPT ![w] =
                  [fase |-> "excluir_leu", p |-> p, chamadas |-> @.chamadas]]
            /\ UNCHANGED <<participantes, leiloes, lances, agora, notificacoes, ret>>

excluir_contar_lances(w) ==
    /\ sessoes[w].fase = "excluir_leu"
    /\ IF ParticipanteTemLances(lances, sessoes[w].p)
       THEN FalhaChamada(w, "excluir_participante", "tem_lances")
       ELSE Passa(w, "excluir_contou")

\* session.delete + commit, first half: the flush loads participante.lances
\* (relationship without delete cascade) to set their participante_id to
\* NULL, which the NOT NULL column refuses (IntegrityError)
excluir_carregar_lances(w) ==
    /\ sessoes[w].fase = "excluir_contou"
    /\ IF ParticipanteTemLances(lances, sessoes[w].p)
       THEN FalhaChamada(w, "excluir_participante", "commit")
       ELSE Passa(w, "excluir_carregou")

\* second half: DELETE FROM participantes + commit
excluir_apagar(w) ==
    /\ sessoes[w].fase = "excluir_carregou"
    /\ participantes' =
          [q \in DOMAIN participantes \ {sessoes[w].p} |-> participantes[q]]
    /\ sessoes' = [sessoes EXCEPT ![w] = Fecha(w)]
    /\ ret' = Ret("excluir_participante", "ok")
    /\ UNCHANGED <<leiloes, lances, agora, notificacoes>>

SessaoAtualizarLer ==
    \E w \in Sessoes, p \in IdsParticipante, a \in EntradasAtualizarParticipante :
        /\ sessoes[w].chamadas < MaxChamadas
        /\ atualizar_ler_participante(w, p, a)

SessaoAtualizarContar == \E w \in Sessoes : atualizar_contar_lances(w)

SessaoAtualizarGravar == \E w \in Sessoes : atualizar_gravar(w)

SessaoExcluirLer ==
    \E w \in Sessoes, p \in IdsParticipante :
        /\ sessoes[w].chamadas < MaxChamadas
        /\ excluir_ler_participante(w, p)

SessaoExcluirContar == \E w \in Sessoes : excluir_contar_lances(w)

SessaoExcluirCarregar == \E w \in Sessoes : excluir_carregar_lances(w)

SessaoExcluirApagar == \E w \in Sessoes : excluir_apagar(w)

NextReg ==
    \/ SessaoLerParticipante
    \/ SessaoLerLeilao
    \/ SessaoLerUltimo
    \/ SessaoGravar
    \/ SessaoAtualizarLer
    \/ SessaoAtualizarContar
    \/ SessaoAtualizarGravar
    \/ SessaoExcluirLer
    \/ SessaoExcluirContar
    \/ SessaoExcluirCarregar
    \/ SessaoExcluirApagar

SpecReg == InitConc /\ [][NextReg]_vars

\* ------------------------------------ concurrent atualizar_status_leiloes
\* A sweep reads the clock and selects the INATIVO and ABERTO auctions into
\* its session; the loop decides on the rows as read; the commit writes the
\* status (and winner) of the rows the loop changed, whatever their stored
\* status has become meanwhile; then the finalized ones go to the notifier.
varredura_ler(w, enviar_emails) ==
    /\ sessoes[w].fase = "livre"
    /\ sessoes' = [sessoes EXCEPT ![w] =
          [fase |-> "varredura_leu", t |-> agora,
           lidos |-> [l \in ParaProcessar(leiloes) |-> leiloes[l]],
           enviar_emails |-> enviar_emails, chamadas |-> @.chamadas]]
    /\ UNCHANGED <<participantes, leiloes, lances, agora, notificacoes, ret>>

\* the auctions whose status the loop of session w changes
Alterados(w) ==
    {l \in DOMAIN sessoes[w].lidos :
        Destino(sessoes[w].lidos, lances, sessoes[w].t, l) # sessoes[w].lidos[l].status}

\* the session is closed; t stays as the clock reading of its last sweep
FechaVarredura(w) ==
    [fase |-> "livre", chamadas |-> sessoes[w].chamadas + 1, t |-> sessoes[w].t]

varredura_gravar(w) ==
    /\ sessoes[w].fase = "varredura_leu"
    /\ LET lidos == sessoes[w].lidos
           t == sessoes[w].t
       IN  IF ~(Alterados(w) \subseteq DOMAIN leiloes)
           \* UPDATE of a deleted row: StaleDataError, rollback, raise
           THEN /\ sessoes' = [sessoes EXCEPT ![w] = FechaVarredura(w)]
                /\ Falha("atualizar_status_leiloes", "commit")
           ELSE
             \E esc \in EscolhasVencedor(lidos, lances, t) :
             \E falha \in BOOLEAN :
             \E sucesso \in SUBSET (DOMAIN esc) :
               LET notifica == sessoes[w].enviar_emails /\ DOMAIN esc # {}
                   chamados ==
                       IF notifica /\ ~falha
                       THEN {l \in DOMAIN esc :
                               lances[esc[l]].participante_id \in DOMAIN participantes}
                       ELSE {}
               IN  /\ (~notifica => ~falha /\ sucesso = {})
                   /\ (falha => sucesso = {})
                   /\ sucesso \subseteq (IF notifica THEN chamados ELSE {})
                   /\ leiloes' =
                         [l \in DOMAIN leiloes |->
                             IF l \in Alterados(w)
                             THEN [leiloes[l] EXCEPT
                                     !.status = Destino(lidos, lances, t, l),
                                     !.participante_vencedor_id =
                                         IF l \in DOMAIN esc
                                         THEN lances[esc[l]].participante_id ELSE @]
                             ELSE leiloes[l]]
                   /\ notificacoes' =
                         [l \in IdsLeilao |->
                             IF notifica /\ l \in DOMAIN esc
                             THEN notificacoes[l] + 1 ELSE notificacoes[l]]
                   /\ ret' = [op |-> "atualizar_status_leiloes", motivo |-> "ok",
                              cont |-> <<Cardinality(Mudam(lidos, lances, t, "ABERTO")),
                                         Cardinality(Mudam(lidos, lances, t, "FINALIZADO")),
                                         Cardinality(Mudam(lidos, lances, t, "EXPIRADO")),
                                         Cardinality(sucesso)>>,
                              seguidas |-> IF ret.op = "atualizar_status_leiloes"
                                           THEN 2 ELSE 1]
                   /\ sessoes' = [sessoes EXCEPT ![w] = FechaVarredura(w)]
                   /\ UNCHANGED <<participantes, lances, agora>>

\* two registered participants and one auction, either as criar_leilao left
\* it or opened by an earlier sweep, with two bids or none
InitSweep ==
    \E a \in EntradasCriarLeilao, aberto \in BOOLEAN, com_lances \in BOOLEAN :
        /\ a[1] = TamMinNomeLeilao
        /\ a[2] = 1
        /\ validar_datas(a[3], a[4], FALSE, 0)
        /\ aberto => a[3] = 0
        /\ com_lances => aberto
        /\ participantes = [p \in IdsParticipante |->
              [cpf |-> p, nome |-> TamMinNomeParticipante, email |-> p,
               data_nascimento |-> IdadeMinima]]
        /\ leiloes = [l \in {1} |->
              [nome |-> a[1], lance_minimo |-> a[2], data_inicio |-> a[3],
               data_termino |-> a[4],
               status |-> IF aberto THEN "ABERTO" ELSE "INATIVO",
               participante_vencedor_id |-> Nulo]]
        /\ lances = IF com_lances
                    THEN <<[id |-> 1, valor |-> 1, leilao_id |-> 1,
                            participante_id |-> 1, data_lance |-> 0],
                           [id |-> 2, valor |-> 2, leilao_id |-> 1,
                            participante_id |-> 2, data_lance |-> 0]>>
                    ELSE <<>>
        /\ agora = 0
        /\ notificacoes = [l \in IdsLeilao |-> 0]
        /\ ret = IF com_lances THEN Ret("criar_lance", "ok")
                 ELSE IF aberto
                     THEN [op |-> "atualizar_status_leiloes", motivo |-> "ok",
                           cont |-> <<1, 0, 0, 0>>, seguidas |-> 1]
                 ELSE Ret("criar_leilao", "ok")
        /\ sessoes = [w \in Sessoes |-> Livre]

SessaoVarreduraLer ==
    \E w \in Sessoes, enviar_emails \in BOOLEAN :
        /\ sessoes[w].chamadas < MaxChamadas
        /\ varredura_ler(w, enviar_emails)

SessaoVarreduraGravar == \E w \in Sessoes : varredura_gravar(w)

NextSweep ==
    \/ Relogio
    \/ SessaoVarreduraLer
    \/ SessaoVarreduraGravar

SpecSweep == InitSweep /\ [][NextSweep]_vars


\* ================================================================ claims
Terminais == {"FINALIZADO", "EXPIRADO"}

\* i and j are insertion-adjacent bids of the same auction
Adjacentes(i, j) ==
    /\ i < j
    /\ lances[i].leilao_id = lances[j].leilao_id
    /\ \A k \in (i + 1)..(j - 1) : lances[k].leilao_id # lances[i].leilao_id

PossuiLance(lc, p) == \E i \in 1..Len(lc) : lc[i].participante_id = p

\* C1: for calls run one at a time, the bids of an auction taken in insertion
\* order have strictly increasing amounts.
C1_ValoresCrescentes ==
    \A i, j \in 1..Len(lances) : Adjacentes(i, j) => lances[i].valor < lances[j].valor

\* C2: for calls run one at a time, no two insertion-adjacent bids of an
\* auction belong to the same participant.
C2_SemLancesConsecutivos ==
    \A i, j \in 1..Len(lances) :
        Adjacentes(i, j) => lances[i].participante_id # lances[j].participante_id

C4_VencedorSseFinalizado ==
    \A l \in DOMAIN leiloes :
        /\ (leiloes[l].participante_vencedor_id # Nulo) <=> (leiloes[l].status = "FINALIZADO")
        /\ leiloes[l].participante_vencedor_id # Nulo =>
              \E i \in IndicesDoLeilao(lances, l) :
                  /\ lances[i].participante_id = leiloes[l].participante_vencedor_id
                  /\ \A j \in IndicesDoLeilao(lances, l) : lances[j].valor <= lances[i].valor

C4_Witness ==
    \E l \in DOMAIN leiloes :
        /\ leiloes[l].status = "FINALIZADO"
        /\ \E i, j \in IndicesDoLeilao(lances, l) :
              /\ lances[i].valor < lances[j].valor
              /\ lances[i].participante_id # lances[j].participante_id
              /\ leiloes[l].participante_vencedor_id = lances[j].participante_id

\* C5: a concurrent criar_lance commits its bid only if the last bid it was
\* validated against is still the last bid of the auction, so that no two
\* bids validated against the same last bid are both accepted.
C5_GravaSobreUltimoAtual ==
    [][ \A w \in Sessoes :
            (sessoes[w].fase = "leu_ultimo" /\ lance_gravar(w)) =>
                sessoes[w].ult_id \in
                    {IF u = 0 THEN 0 ELSE lances[u].id :
                        u \in CandidatosUltimo(lances, sessoes[w].l)} ]_vars

\* C6: a sweep that follows a sweep with no other call and no clock advance
\* in between changes no auction and reports zero opened, finalized and
\* expired auctions and zero e-mails.
C6_SweepIdempotente ==
    [][ ( /\ ret.op = "atualizar_status_leiloes"
          /\ ret'.op = "atualizar_status_leiloes"
          /\ AtualizarStatusLeiloes )
        => (leiloes' = leiloes /\ ret'.cont = Zeros) ]_vars

C6_Witness ==
    /\ ret.op = "atualizar_status_leiloes"
    /\ ret.seguidas = 2
    /\ ret.cont = Zeros
    /\ \E l \in DOMAIN leiloes : leiloes[l].status = "FINALIZADO"

\* C7: once an auction is FINALIZADO or EXPIRADO, no sweep, bid, auction
\* update or participant operation changes its status or its winner.
C7_TerminaisIrreversiveis ==
    [][ \A l \in DOMAIN leiloes :
            (leiloes[l].status \in Terminais /\ l \in DOMAIN leiloes') =>
                /\ leiloes'[l].status = leiloes[l].status
                /\ leiloes'[l].participante_vencedor_id =
                       leiloes[l].participante_vencedor_id ]_vars

\* an EXPIRADO auction whose dates were moved into the future, after a sweep
C7_Witness ==
    /\ ret.op = "atualizar_status_leiloes"
    /\ \E l \in DOMAIN leiloes :
          /\ leiloes[l].status = "EXPIRADO"
          /\ leiloes[l].data_termino > agora

\* C8: atualizar_leilao on an auction that is not INATIVO is rejected and
\* leaves the auction as it was.
C8_AtualizarSoInativo ==
    [][ \A l \in DOMAIN leiloes, a \in EntradasAtualizarLeilao :
            ( /\ leiloes[l].status # "INATIVO"
              /\ ret'.op = "atualizar_leilao"
              /\ atualizar_leilao(l, a[1], a[2], a[3], a[4]) )
            => (ret'.motivo # "ok" /\ leiloes' = leiloes) ]_vars

\* C9: excluir_leilao on an auction that is not INATIVO is rejected and the
\* auction still exists afterwards.
C9_ExcluirSoInativo ==
    [][ \A l \in DOMAIN leiloes :
            ( /\ leiloes[l].status # "INATIVO"
              /\ ret'.op = "excluir_leilao"
              /\ excluir_leilao(l) )
            => (ret'.motivo # "ok" /\ l \in DOMAIN leiloes') ]_vars

\* C10: a participant who owns a bid keeps the record unchanged and keeps
\* owning a bid in the next state, and every atualizar_participante or
\* excluir_participante call on that participant fails.
C10_ParticipanteComLanceImutavel ==
    [][ \A p \in DOMAIN participantes :
            PossuiLance(lances, p) =>
                /\ p \in DOMAIN participantes'
                /\ participantes'[p] = participantes[p]
                /\ PossuiLance(lances', p)
                /\ ( ( /\ ret'.op = "atualizar_participante"
                       /\ \E a \in EntradasAtualizarParticipante :
                             atualizar_participante(p, a[1], a[2], a[3], a[4]) )
                     => ret'.motivo = "tem_lances" )
                /\ ( (ret'.op = "excluir_participante" /\ excluir_participante(p))
                     => ret'.motivo = "tem_lances" ) ]_vars

C10_Witness ==
    /\ ret.op \in {"atualizar_participante", "excluir_participante"}
    /\ ret.motivo = "tem_lances"
    /\ \E l \in DOMAIN leiloes : leiloes[l].status = "FINALIZADO"

\* C11: when atualizar_participante or excluir_participante runs concurrently
\* with criar_lance of the same participant, a participant who owns a stored
\* bid is never modified or deleted, and no stored bid belongs to a deleted
\* participant.
C11_GuardaAtomicaComLance ==
    [][ /\ \A p \in DOMAIN participantes :
              PossuiLance(lances, p) =>
                  /\ p \in DOMAIN participantes'
                  /\ participantes'[p] = participantes[p]
        /\ \A i \in 1..Len(lances') :
              lances'[i].participante_id \in DOMAIN participantes' ]_vars

\* C12: simular_lance, whatever its arguments and however often it is called,
\* leaves participants, auctions (status, winner), bids and notifications
\* exactly as they were.
C12_SimularNaoAltera ==
    [][ ret'.op = "simular_lance" =>
            /\ participantes' = participantes
            /\ leiloes' = leiloes
            /\ lances' = lances
            /\ notificacoes' = notificacoes ]_vars

\* a simulation that found the bid valid, in an auction that has bids
C12_Witness ==
    /\ ret.op = "simular_lance"
    /\ ret.motivo = "ok"
    /\ Len(lances) >= 1

SemLances(l) == IndicesDoLeilao(lances, l) = {}

\* C13: after a sweep, every auction that was INATIVO or ABERTO with
\* data_termino <= now and no bids is EXPIRADO and has no winner.
C13_SweepExpiraSemLances ==
    [][ ret'.op = "atualizar_status_leiloes" =>
            \A l \in DOMAIN leiloes :
                ( /\ leiloes[l].status \in StatusProcessados
                  /\ leiloes[l].data_termino <= agora
                  /\ SemLances(l) )
                => /\ leiloes'[l].status = "EXPIRADO"
                   /\ leiloes'[l].participante_vencedor_id = Nulo ]_vars

\* a sweep at the very end time of an auction expired it
C13_Witness ==
    /\ ret.op = "atualizar_status_leiloes"
    /\ ret.cont[3] = 1
    /\ \E l \in DOMAIN leiloes :
          /\ leiloes[l].status = "EXPIRADO"
          /\ leiloes[l].data_termino = agora
          /\ leiloes[l].participante_vencedor_id = Nulo

\* C14: after a sweep, every auction that was INATIVO or ABERTO with
\* data_termino <= now and at least one bid is FINALIZADO and its winner is
\* the owner of a bid of the auction that no other bid of it exceeds.
C14_SweepFinalizaComLances ==
    [][ ret'.op = "atualizar_status_leiloes" =>
            \A l \in DOMAIN leiloes :
                ( /\ leiloes[l].status \in StatusProcessados
                  /\ leiloes[l].data_termino <= agora
                  /\ ~SemLances(l) )
                => /\ leiloes'[l].status = "FINALIZADO"
                   /\ \E i \in IndicesDoLeilao(lances, l) :
                         /\ leiloes'[l].participante_vencedor_id = lances[i].participante_id
                         /\ \A j \in IndicesDoLeilao(lances, l) :
                               lances[j].valor <= lances[i].valor ]_vars

\* a sweep finalized an auction whose first bid is lower than a later bid of
\* another participant
C14_Witness ==
    /\ ret.op = "atualizar_status_leiloes"
    /\ ret.cont[2] = 1
    /\ \E l \in DOMAIN leiloes :
          /\ leiloes[l].status = "FINALIZADO"
          /\ \E i, j \in IndicesDoLeilao(lances, l) :
                /\ i < j
                /\ lances[i].valor < lances[j].valor
                /\ lances[i].participante_id # lances[j].participante_id

\* C15: after a sweep, an INATIVO auction with data_inicio <= now <
\* data_termino is ABERTO, an INATIVO auction with now < data_inicio is still
\* INATIVO, an ABERTO auction with now < data_termino is still ABERTO, and
\* none of them has a winner.
C15_SweepAbreOuMantem ==
    [][ ret'.op = "atualizar_status_leiloes" =>
            \A l \in DOMAIN leiloes :
                /\ ( /\ leiloes[l].status = "INATIVO"
                     /\ leiloes[l].data_inicio <= agora
                     /\ agora < leiloes[l].data_termino )
                   => /\ leiloes'[l].status = "ABERTO"
                      /\ leiloes'[l].participante_vencedor_id = Nulo
                /\ (leiloes[l].status = "INATIVO" /\ agora < leiloes[l].data_inicio)
                   => /\ leiloes'[l].status = "INATIVO"
                      /\ leiloes'[l].participante_vencedor_id = Nulo
                /\ (leiloes[l].status = "ABERTO" /\ agora < leiloes[l].data_termino)
                   => /\ leiloes'[l].status = "ABERTO"
                      /\ leiloes'[l].participante_vencedor_id = Nulo ]_vars

\* a sweep at the very start time of an auction opened it
C15_Witness ==
    /\ ret.op = "atualizar_status_leiloes"
    /\ ret.cont[1] = 1
    /\ \E l \in DOMAIN leiloes :
          /\ leiloes[l].status = "ABERTO"
          /\ leiloes[l].data_inicio = agora

\* auctions the step handed to the winner notifier
Entregues == {l \in IdsLeilao : notificacoes'[l] > notificacoes[l]}

\* C16: of two concurrent sweeps, at most one performs and counts the
\* transition of an auction: a sweep that commits and counts a transition
\* finds the auction still in the status it read; and no auction is handed
\* to the winner notifier twice.
C16_SweepsNaoContamDuasVezes ==
    [][ /\ \A w \in Sessoes :
              (sessoes[w].fase = "varredura_leu" /\ sessoes'[w].fase = "livre") =>
                  \A l \in Alterados(w) :
                      /\ l \in DOMAIN leiloes
                      /\ leiloes[l].status = sessoes[w].lidos[l].status
        /\ \A l \in IdsLeilao : notificacoes'[l] <= 1 ]_vars

\* the sessions that completed a sweep
Concluidas == {w \in Sessoes : sessoes[w].fase = "livre" /\ sessoes[w].chamadas >= 1}

\* C17: when every racing sweep has completed, each auction has the status
\* and the winner a single sweep at the latest clock reading of those sweeps
\* gives it: the result does not depend on the interleaving.
C17_SweepsConvergem ==
    ( /\ \A w \in Sessoes : sessoes[w].fase = "livre"
      /\ Concluidas # {} )
    => LET T == MaxDe({sessoes[w].t : w \in Concluidas})
       IN  \A l \in DOMAIN leiloes :
             /\ leiloes[l].status =
                    NovoStatus([leiloes[l] EXCEPT !.status = "INATIVO"],
                               IndicesDoLeilao(lances, l) # {}, T)
             /\ IF leiloes[l].status = "FINALIZADO"
                THEN \E i \in LancesVencedores(lances, l) :
                        leiloes[l].participante_vencedor_id = lances[i].participante_id
                ELSE leiloes[l].participante_vencedor_id = Nulo

\* C18: whatever the winner notifier does with the auctions handed to it
\* (returns False, raises), the sweep returns normally, every auction it
\* finalized stays FINALIZADO with its winner set, the tally counts it, and
\* emails_enviados counts no more than the auctions handed over.
C18_FalhaDoNotificadorNaoReverte ==
    [][ ret'.op = "atualizar_status_leiloes" =>
            /\ ret'.motivo = "ok"
            /\ ret'.cont[2] = Cardinality(Mudam(leiloes, lances, agora, "FINALIZADO"))
            /\ ret'.cont[4] <= Cardinality(Entregues)
            /\ \A l \in Mudam(leiloes, lances, agora, "FINALIZADO") \cup Entregues :
                  /\ leiloes'[l].status = "FINALIZADO"
                  /\ leiloes'[l].participante_vencedor_id # Nulo ]_vars

\* a sweep finalized an auction and handed it to the notifier, which failed:
\* no e-mail is counted
C18_Witness ==
    /\ ret.op = "atualizar_status_leiloes"
    /\ ret.cont[2] = 1
    /\ ret.cont[4] = 0
    /\ \E l \in DOMAIN leiloes :
          /\ notificacoes[l] = 1
          /\ leiloes[l].status = "FINALIZADO"
          /\ leiloes[l].participante_vencedor_id # Nulo

RegrasVioladas(p, l, valor, ult) ==
    {k \in 1..7 :
        \/ k = 1 /\ ~(valor > 0)
        \/ k = 2 /\ p \notin DOMAIN participantes
        \/ k = 3 /\ l \notin DOMAIN leiloes
        \/ k = 4 /\ l \in DOMAIN leiloes /\ leiloes[l].status # "ABERTO"
        \/ k = 5 /\ l \in DOMAIN leiloes /\ valor < leiloes[l].lance_minimo
        \/ k = 6 /\ ult # 0 /\ valor <= lances[ult].valor
        \/ k = 7 /\ ult # 0 /\ lances[ult].participante_id = p}

NomeDaRegra ==
    <<"valor", "participante", "leilao", "status", "lance_minimo",
      "menor_que_ultimo", "consecutivo">>

PrimeiraViolada(p, l, valor, ult) ==
    CHOOSE k \in RegrasVioladas(p, l, valor, ult) :
        \A j \in RegrasVioladas(p, l, valor, ult) : k <= j

\* C21: a criar_lance call that violates rules fails with the earliest one
\* in the order: amount, participant, auction, status, floor, not above the
\* last bid, same bidder as the last bid; a call that is accepted violates
\* none.
C21_PrimeiraRegraViolada ==
    [][ (ret'.op = "criar_lance" /\ ret'.motivo # "commit")
        => \A p \in IdsParticipante, l \in IdsLeilao, valor \in Valores :
            criar_lance(p, l, valor)
            => \E ult \in CandidatosUltimo(lances, l) :
                  IF ret'.motivo = "ok"
                  THEN RegrasVioladas(p, l, valor, ult) = {}
                  ELSE /\ RegrasVioladas(p, l, valor, ult) # {}
                       /\ ret'.motivo = NomeDaRegra[PrimeiraViolada(p, l, valor, ult)] ]_vars

\* the only registered participant owns the only bid and bids again, not
\* above it: rules e and f are both violated and rule e is reported
C21_Witness ==
    /\ ret.op = "criar_lance"
    /\ ret.motivo = "menor_que_ultimo"
    /\ Len(lances) = 1
    /\ DOMAIN participantes = {lances[1].participante_id}

\* C22: in every state and for every participant, auction and amount,
\* simular_lance answers valido = True exactly when criar_lance with the same
\* arguments is accepted (both read the same last bid).
C22_SimulacaoEquivaleAoLance ==
    \A p \in IdsParticipante, l \in IdsLeilao, valor \in Valores :
        \A ult \in CandidatosUltimo(lances, l) :
            (MotivoSimulacao(participantes, leiloes, lances, ult, p, l, valor) = "ok")
            <=> (MotivoLance(participantes, leiloes, lances, ult, p, l, valor) = "ok")

\* C23: criar_lance refuses every amount below the floor of the auction and
\* stores nothing, and every stored bid is at least the current floor of its
\* auction.
C23_LancesAcimaDoPiso ==
    [][ /\ ret'.op = "criar_lance"
           => \A p \in IdsParticipante, l \in DOMAIN leiloes, valor \in Valores :
                 (valor < leiloes[l].lance_minimo /\ criar_lance(p, l, valor))
                 => (ret'.motivo # "ok" /\ lances' = lances)
        /\ \A i \in DOMAIN lances' :
              lances'[i].leilao_id \in DOMAIN leiloes'
              => lances'[i].valor >= leiloes'[lances'[i].leilao_id].lance_minimo ]_vars

\* a bid is stored in an auction and a later bid below the floor was refused
C23_Witness ==
    /\ ret.op = "criar_lance"
    /\ ret.motivo = "lance_minimo"
    /\ \E i \in DOMAIN lances : lances[i].leilao_id \in DOMAIN leiloes

\* the bid a step adds to an auction that had none
PrimeiroLance(l) ==
    /\ ret'.op = "criar_lance"
    /\ ret'.motivo = "ok"
    /\ IndicesDoLeilao(lances, l) = {}
    /\ Len(lances') = Len(lances) + 1
    /\ lances'[Len(lances')].leilao_id = l

\* C24 as stated: the first bid of an auction is accepted only if its amount
\* is strictly above the floor.
C24_PrimeiroLanceAcimaDoPiso ==
    [][ \A l \in DOMAIN leiloes :
            PrimeiroLance(l) => lances'[Len(lances')].valor > leiloes[l].lance_minimo ]_vars

\* C24 amended: the first bid of an auction is accepted only if its amount is
\* at least the floor, and criar_lance accepts an amount equal to the floor
\* from a registered participant on an ABERTO auction without bids.
C24_PrimeiroLanceDesdeOPiso ==
    [][ /\ \A l \in DOMAIN leiloes :
              PrimeiroLance(l) => lances'[Len(lances')].valor >= leiloes[l].lance_minimo
        /\ \A p \in DOMAIN participantes, l \in DOMAIN leiloes :
              (leiloes[l].status = "ABERTO" /\ IndicesDoLeilao(lances, l) = {})
              => MotivoLance(participantes, leiloes, lances, 0, p, l,
                             leiloes[l].lance_minimo) = "ok" ]_vars

\* the only bid of an auction is equal to its floor
C24_Witness ==
    /\ ret.op = "criar_lance"
    /\ ret.motivo = "ok"
    /\ Len(lances) = 1
    /\ lances[1].leilao_id \in DOMAIN leiloes
    /\ lances[1].valor = leiloes[lances[1].leilao_id].lance_minimo

\* C28: criar_leilao stores the auction INATIVO with no winner whatever its
\* dates, and an INATIVO auction leaves that status only in a step of
\* atualizar_status_leiloes.
C28_CriadoInativo ==
    [][ /\ (ret'.op = "criar_leilao" /\ ret'.motivo = "ok")
           => \E l \in DOMAIN leiloes' \ DOMAIN leiloes :
                 /\ leiloes'[l].status = "INATIVO"
                 /\ leiloes'[l].participante_vencedor_id = Nulo
        /\ \A l \in DOMAIN leiloes \cap DOMAIN leiloes' :
              (leiloes[l].status = "INATIVO" /\ leiloes'[l].status # "INATIVO")
              => ret'.op = "atualizar_status_leiloes" ]_vars

\* an auction created with dates already past (permitir_passado) is INATIVO
C28_Witness ==
    /\ ret.op = "criar_leilao"
    /\ ret.motivo = "ok"
    /\ \E l \in DOMAIN leiloes :
          /\ leiloes[l].data_termino <= agora
          /\ leiloes[l].status = "INATIVO"
          /\ leiloes[l].participante_vencedor_id = Nulo

\* C29: every stored auction ends after it starts and has a positive floor;
\* an atualizar_leilao call supplying one date that does not fit the stored
\* other date fails and writes nothing.
C29_DatasEPisoValidos ==
    [][ /\ \A l \in DOMAIN leiloes' :
              /\ leiloes'[l].data_termino > leiloes'[l].data_inicio
              /\ leiloes'[l].lance_minimo > 0
        /\ ret'.op = "atualizar_leilao"
           => \A l \in DOMAIN leiloes, d \in Tempos :
                 (\/ /\ leiloes[l].data_termino <= d
                     /\ atualizar_leilao(l, Nulo, Nulo, d, Nulo)
                  \/ /\ d <= leiloes[l].data_inicio
                     /\ atualizar_leilao(l, Nulo, Nulo, Nulo, d))
                 => (ret'.motivo # "ok" /\ leiloes' = leiloes)
        /\ (ret'.op \in {"criar_leilao", "atualizar_leilao"} /\ ret'.motivo # "ok")
              => leiloes' = leiloes ]_vars

\* at time 0 no start is in the past, so an update refused for its dates
\* was refused because the end would not be after the start
C29_Witness ==
    /\ agora = 0
    /\ ret.op = "atualizar_leilao"
    /\ ret.motivo = "datas"
    /\ leiloes # <<>>

\* C25: obter_valor_minimo_proximo_lance returns the floor when the auction
\* has no bids and otherwise the amount of the last inserted bid plus 0.01,
\* and on an ABERTO auction criar_lance accepts that amount from a registered
\* participant who is not the last bidder and refuses every smaller amount.
C25_ProximoMinimoEhOMenorAceito ==
    (ret.op = "obter_valor_minimo_proximo_lance" /\ ret.motivo = "ok")
    => /\ IF IndicesDoLeilao(lances, ret.l) = {}
          THEN ret.valor = leiloes[ret.l].lance_minimo
          ELSE ret.valor = lances[MaxDe(IndicesDoLeilao(lances, ret.l))].valor + Incremento
       /\ leiloes[ret.l].status = "ABERTO"
          => \A ult \in CandidatosUltimo(lances, ret.l), p \in DOMAIN participantes :
                (ult = 0 \/ lances[ult].participante_id # p)
                => /\ ret.valor \in Valores
                      => MotivoLance(participantes, leiloes, lances, ult, p,
                                     ret.l, ret.valor) = "ok"
                   /\ \A v \in Valores :
                         v < ret.valor
                         => MotivoLance(participantes, leiloes, lances, ult, p,
                                        ret.l, v) # "ok"

\* the bidders of auction l, whether or not they are still registered
Licitantes(l) == {lances[i].participante_id : i \in IndicesDoLeilao(lances, l)}

\* C26: the ranking of an auction has exactly one entry per distinct bidder,
\* with the bidder's highest amount and number of bids, in order of
\* non-increasing highest amount, with positions 1..n and the winner flag on
\* position 1 only.
C26_RankingPorMaiorLance ==
    (ret.op = "obter_ranking_participantes_leilao" /\ ret.motivo = "ok")
    => LET r == ret.ranking
           doLicitante(p) == {i \in IndicesDoLeilao(lances, ret.l) :
                                 lances[i].participante_id = p}
       IN  /\ DOMAIN r = 1..Cardinality(Licitantes(ret.l))
           /\ {r[k].participante_id : k \in DOMAIN r} = Licitantes(ret.l)
           /\ \A k \in DOMAIN r :
                 /\ r[k].posicao = k
                 /\ r[k].vencedor = (k = 1)
                 /\ r[k].total_lances = Cardinality(doLicitante(r[k].participante_id))
                 /\ \E i \in doLicitante(r[k].participante_id) :
                       r[k].maior_lance = lances[i].valor
                 /\ \A i \in doLicitante(r[k].participante_id) :
                       lances[i].valor <= r[k].maior_lance
           /\ \A j, k \in DOMAIN r : j < k => r[j].maior_lance >= r[k].maior_lance

\* bids (A, 1), (B, 2), (A, 3) rank as A (3, two bids, winner), B (2, one bid)
C26_Witness ==
    /\ ret.op = "obter_ranking_participantes_leilao"
    /\ Len(lances) = 3
    /\ lances[1].participante_id = lances[3].participante_id
    /\ lances[2].participante_id # lances[1].participante_id
    /\ lances[1].valor < lances[2].valor /\ lances[2].valor < lances[3].valor
    /\ Len(ret.ranking) = 2
    /\ ret.ranking[1].participante_id = lances[3].participante_id
    /\ ret.ranking[1].maior_lance = lances[3].valor
    /\ ret.ranking[1].total_lances = 2
    /\ ret.ranking[1].vencedor
    /\ ret.ranking[2].participante_id = lances[2].participante_id
    /\ ret.ranking[2].maior_lance = lances[2].valor
    /\ ~ret.ranking[2].vencedor

Unicos(ps) ==
    \A p, q \in DOMAIN ps :
        p # q => (ps[p].cpf # ps[q].cpf /\ ps[p].email # ps[q].email)

\* C27: no two stored participants share a CPF or an e-mail; a
\* criar_participante or atualizar_participante call whose cleaned CPF or
\* e-mail belongs to another participant is refused and changes nothing; an
\* update that submits the participant's own CPF and e-mail again is not
\* refused as a duplicate.
C27_CpfEEmailUnicos ==
    [][ /\ Unicos(participantes')
        /\ ret'.op = "criar_participante"
           => \A cpf \in CpfsBrutos, nome \in NomesParticipante,
                 email \in EmailsBrutos, idade \in Idades :
                 (/\ \E q \in DOMAIN participantes :
                        \/ participantes[q].cpf = limpar_cpf(cpf)
                        \/ participantes[q].email = normalizar_email(email)
                  /\ criar_participante(limpar_cpf(cpf), nome,
                                        normalizar_email(email), idade))
                 => (ret'.motivo # "ok" /\ participantes' = participantes)
        /\ ret'.op = "atualizar_participante"
           => \A p \in DOMAIN participantes, cpf \in OpcBruto(CpfsBrutos),
                 email \in OpcBruto(EmailsBrutos) :
                 /\ (/\ \E q \in DOMAIN participantes \ {p} :
                           \/ participantes[q].cpf = limpar_cpf(cpf)
                           \/ participantes[q].email = normalizar_email(email)
                     /\ atualizar_participante(p, limpar_cpf(cpf), Nulo,
                                               normalizar_email(email), Nulo))
                    => (ret'.motivo # "ok" /\ participantes' = participantes)
                 /\ (/\ limpar_cpf(cpf) = participantes[p].cpf
                     /\ normalizar_email(email) = participantes[p].email
                     /\ atualizar_participante(p, limpar_cpf(cpf), Nulo,
                                               normalizar_email(email), Nulo))
                    => ret'.motivo = "ok" ]_vars

\* two participants are registered and an update that would give one of them
\* the e-mail of the other was refused
C27_Witness ==
    /\ Cardinality(DOMAIN participantes) = 2
    /\ ret.op = "atualizar_participante"
    /\ ret.motivo = "email_duplicado"

\* C30: while atualizar_status_leiloes and criar_lance calls overlap, no
\* EXPIRADO auction owns a bid and the winner of every FINALIZADO auction is
\* the owner of a highest stored bid of that auction.
C30_SweepELanceConsistentes ==
    \A l \in DOMAIN leiloes :
        /\ leiloes[l].status = "EXPIRADO" => IndicesDoLeilao(lances, l) = {}
        /\ leiloes[l].status = "FINALIZADO"
           => \E i \in IndicesDoLeilao(lances, l) :
                 /\ lances[i].participante_id = leiloes[l].participante_vencedor_id
                 /\ \A j \in IndicesDoLeilao(lances, l) :
                       lances[j].valor <= lances[i].valor

\* C31: with calls run one at a time, every step keeps every stored bid as it
\* is (the bids before the step are a prefix of the bids after it), and every
\* INATIVO or EXPIRADO auction, the only ones excluir_leilao deletes, has no
\* bids.
C31_LancesImutaveis ==
    [][ /\ Len(lances') >= Len(lances)
        /\ SubSeq(lances', 1, Len(lances)) = lances
        /\ \A l \in DOMAIN leiloes' :
              leiloes'[l].status \in {"INATIVO", "EXPIRADO"}
              => IndicesDoLeilao(lances', l) = {} ]_vars

\* bids are stored and excluir_leilao was called on their auction
C31_Witness ==
    /\ ret.op = "excluir_leilao"
    /\ Len(lances) >= 2
    /\ \A i \in DOMAIN lances : lances[i].leilao_id \in DOMAIN leiloes

\* C32: the row that criar_lance, simular_lance, verificar_pode_dar_lance and
\* obter_valor_minimo_proximo_lance read as the last bid of an auction is the
\* most recently inserted bid of that auction, also when bids carry equal
\* timestamps.
C32_UltimoEhOMaisRecente ==
    \A l \in DOMAIN leiloes :
        IndicesDoLeilao(lances, l) # {}
        => CandidatosUltimo(lances, l) = {MaxDe(IndicesDoLeilao(lances, l))}

\* the status changes the claim allows
ArestasDoSweep ==
    {<<"INATIVO", "ABERTO">>, <<"INATIVO", "EXPIRADO">>, <<"INATIVO", "FINALIZADO">>,
     <<"ABERTO", "EXPIRADO">>, <<"ABERTO", "FINALIZADO">>}

\* C34: the status of a stored auction changes only in a step of
\* atualizar_status_leiloes and only along INATIVO->ABERTO, INATIVO->EXPIRADO,
\* INATIVO->FINALIZADO, ABERTO->EXPIRADO, ABERTO->FINALIZADO, and its winner
\* changes only in such a step; every other call leaves both as they are.
C34_SoOSweepMudaStatus ==
    [][ \A l \in DOMAIN leiloes \cap DOMAIN leiloes' :
            /\ leiloes'[l].status # leiloes[l].status
               => /\ ret'.op = "atualizar_status_leiloes"
                  /\ <<leiloes[l].status, leiloes'[l].status>> \in ArestasDoSweep
            /\ leiloes'[l].participante_vencedor_id # leiloes[l].participante_vencedor_id
               => ret'.op = "atualizar_status_leiloes" ]_vars

\* a sweep has just finalized an auction and set its winner
C34_Witness ==
    /\ ret.op = "atualizar_status_leiloes"
    /\ ret.cont[2] = 1
    /\ \E l \in DOMAIN leiloes :
          /\ leiloes[l].status = "FINALIZADO"
          /\ leiloes[l].participante_vencedor_id # Nulo

\* C36: every stored bid was placed inside the window of its auction: at a
\* time not before the start and before the end.
C36_LanceDentroDaJanela ==
    \A i \in DOMAIN lances :
        lances[i].leilao_id \in DOMAIN leiloes
        => /\ leiloes[lances[i].leilao_id].data_inicio <= lances[i].data_lance
           /\ lances[i].data_lance < leiloes[lances[i].leilao_id].data_termino

\* C37: every stored bid references a stored auction and a stored
\* participant, and every winner of an auction is a stored participant who
\* owns a bid of that auction.
C37_IntegridadeReferencial ==
    /\ \A i \in DOMAIN lances :
          /\ lances[i].leilao_id \in DOMAIN leiloes
          /\ lances[i].participante_id \in DOMAIN participantes
    /\ \A l \in DOMAIN leiloes :
          leiloes[l].participante_vencedor_id # Nulo
          => /\ leiloes[l].participante_vencedor_id \in DOMAIN participantes
             /\ \E i \in IndicesDoLeilao(lances, l) :
                   lances[i].participante_id = leiloes[l].participante_vencedor_id

\* an auction has a winner and excluir_participante refused a participant
\* who owns bids
C37_Witness ==
    /\ ret.op = "excluir_participante"
    /\ ret.motivo = "tem_lances"
    /\ \E l \in DOMAIN leiloes : leiloes[l].participante_vencedor_id # Nulo

\* C38: with bids placed one call at a time, the winner of every FINALIZADO
\* auction is the participant of the most recently inserted bid of that
\* auction, and the ranking of the auction shows that participant, and no
\* other, at position 1.
C38_VencedorEhOUltimoLicitante ==
    \A l \in DOMAIN leiloes :
        leiloes[l].status = "FINALIZADO"
        => /\ leiloes[l].participante_vencedor_id =
                 lances[MaxDe(IndicesDoLeilao(lances, l))].participante_id
           /\ \A o \in Ordenacoes(participantes, lances, l) :
                 o[1] = leiloes[l].participante_vencedor_id

\* C33: an atualizar_leilao or atualizar_participante call that fails, at
\* whichever of the supplied fields, changes no stored auction and no stored
\* participant.
C33_AtualizacaoTudoOuNada ==
    [][ (ret'.op \in {"atualizar_leilao", "atualizar_participante"}
         /\ ret'.motivo # "ok")
        => (leiloes' = leiloes /\ participantes' = participantes) ]_vars

\* two participants are registered and an update was refused at its e-mail,
\* the field checked after the CPF and the name
C33_Witness ==
    /\ Cardinality(DOMAIN participantes) = 2
    /\ ret.op = "atualizar_participante"
    /\ ret.motivo \in {"email", "email_duplicado"}
    /\ leiloes # <<>>

====
